---- MODULE Spec2Model ----
(***************************************************************************)
(* A model of libs/processing/process_area.py of formHTR: the fusion of    *)
(* the text that several recognition services read in one region of        *)
(* interest.  Each function of the file is an operator translated from its *)
(* code; general_text_area is a state machine whose steps are the          *)
(* statements of its body.                                                 *)
(*                                                                         *)
(* Rectangles are records of the attributes the code reads (start_y,       *)
(* end_y, center_y, height, content) plus start_x, the key of the          *)
(* rectangles' own ordering.  A string is a sequence of one-character      *)
(* strings.  Vertical centers of lines are means, kept as exact fractions  *)
(* (numerator, denominator) and compared by cross-multiplication.          *)
(***************************************************************************)
EXTENDS Integers, Sequences, FiniteSets, TLC

VARIABLES
    pc,               \* position in the function being executed
    arg,              \* the arguments as the caller passed them (never written)
    candidates,       \* the caller's list objects, which the callee may mutate
    roi,              \* the ROI: the set of rectangles its predicate calls exceeding
    candidate_lines,  \* general_text_area: lines per non-empty candidate
    aligned_groups,   \* general_text_area: result of align_lines
    words,            \* general_text_area: one entry per processed group
    idx,              \* general_text_area: index of the running for loop
    ret               \* the returned value, or the raised exception

vars == <<pc, arg, candidates, roi, candidate_lines, aligned_groups, words, idx, ret>>

(***************************************************************************)
(* Generic helpers for Python's list operations.                           *)
(***************************************************************************)
Range(s) == {s[i] : i \in 1..Len(s)}

Abs(n) == IF n < 0 THEN -n ELSE n

RECURSIVE SumSeq(_)
SumSeq(s) == IF s = <<>> THEN 0 ELSE s[1] + SumSeq(Tail(s))

RECURSIVE Concat(_)
Concat(ss) == IF ss = <<>> THEN <<>> ELSE ss[1] \o Concat(Tail(ss))

SetMax(S) == CHOOSE m \in S : \A n \in S : n <= m

SetMin(S) == CHOOSE m \in S : \A n \in S : m <= n

\* All sequences over S of length lo..hi.
SeqsOf(S, lo, hi) == UNION {[1..n -> S] : n \in lo..hi}

None == <<"None">>

(***************************************************************************)
(* check_barcode_area                                                      *)
(***************************************************************************)
check_barcode_area_any(cands) ==
    LET sums == [i \in 1..Len(cands) |-> Len(cands[i])]
    IN  (\A i \in 1..Len(sums) : sums[i] <= 1) /\ SumSeq(sums) >= 0

check_barcode_area(cands) ==
    LET sums == [i \in 1..Len(cands) |-> Len(cands[i])]
    IN  (\A i \in 1..Len(sums) : sums[i] <= 1) /\ SumSeq(sums) >= 1

(***************************************************************************)
(* list.sort(key=...): Python's sort is stable; an insertion sort that     *)
(* puts an element after the elements whose key is not greater.            *)
(***************************************************************************)
RECURSIVE InsertByKey(_, _, _)
InsertByKey(sorted, e, key) ==
    IF sorted = <<>> THEN <<e>>
    ELSE IF e[key] < sorted[1][key] THEN <<e>> \o sorted
    ELSE <<sorted[1]>> \o InsertByKey(Tail(sorted), e, key)

RECURSIVE SortByKeyFrom(_, _, _)
SortByKeyFrom(acc, s, key) ==
    IF s = <<>> THEN acc
    ELSE SortByKeyFrom(InsertByKey(acc, s[1], key), Tail(s), key)

\* key names the attribute of the elements that is the sort key.
SortByKey(s, key) == SortByKeyFrom(<<>>, s, key)

(***************************************************************************)
(* separate_to_lines                                                       *)
(***************************************************************************)
\* rectangles.sort(key=lambda rectangle: rectangle.center_y)
sort_by_center_y(rectangles) == SortByKey(rectangles, "center_y")

\* abs(center_y - previous_y) > average_height * 0.5, with
\* average_height = sum of the heights / n, multiplied out by 2n.
line_break(n, sum_height, y, previous_y) ==
    2 * n * Abs(y - previous_y) > sum_height

\* if current_line: lines.append(current_line)
flush_forgotten(lines, current) == lines

flush(lines, current) ==
    IF current # <<>> THEN Append(lines, current) ELSE lines

\* The loop of separate_to_lines over the sorted list from index i on;
\* lines are the closed lines, current is the open one.
RECURSIVE group_loop(_, _, _, _, _)
group_loop(sorted, i, previous_y, lines, current) ==
    IF i > Len(sorted)
    THEN flush(lines, current)
    ELSE LET r == sorted[i]
             brk == line_break(Len(sorted),
                               SumSeq([k \in 1..Len(sorted) |-> sorted[k].height]),
                               r.center_y, previous_y)
         IN  group_loop(sorted, i + 1, r.center_y,
                        IF brk THEN Append(lines, current) ELSE lines,
                        IF brk THEN <<r>> ELSE Append(current, r))

\* The returned lines; the argument itself is left sorted (sort_by_center_y).
separate_to_lines(rectangles) ==
    LET sorted == sort_by_center_y(rectangles)
    IN  group_loop(sorted, 1, sorted[1].center_y, <<>>, <<>>)

(***************************************************************************)
(* align_pairwise: pairwise2.align.globalxs(string_1, string_2, -3, -1,    *)
(* gap_char=' '), first component of the first alignment returned.         *)
(* An alignment is a sequence of columns: "M" pairs a character of each    *)
(* string, "A" pairs a character of string_1 with a gap, "B" pairs a gap   *)
(* with a character of string_2.  globalxs scores a pair of identical      *)
(* characters 1, any other pair 0, and a run of k gap characters           *)
(* open + (k - 1) * extend.  The library returns the best-scoring          *)
(* alignments; which of several equally good ones comes first is not       *)
(* fixed by this code, so align_pairwise is the set of the candidates.     *)
(***************************************************************************)
MatchScore == 1

MismatchScore == 0

GapOpen == -3

GapExtend == -1

GapChar == " "

\* Every alignment of a string of m characters with one of n characters.
RECURSIVE Columns(_, _)
Columns(m, n) ==
    IF m = 0 /\ n = 0 THEN {<<>>}
    ELSE (IF m > 0 /\ n > 0 THEN {<<"M">> \o t : t \in Columns(m - 1, n - 1)} ELSE {})
         \cup (IF m > 0 THEN {<<"A">> \o t : t \in Columns(m - 1, n)} ELSE {})
         \cup (IF n > 0 THEN {<<"B">> \o t : t \in Columns(m, n - 1)} ELSE {})

\* The score of one gap character: the gap opens unless the previous column
\* holds a gap in the same string.
gap_penalty_negated(prev, col) == -(IF prev = col THEN GapExtend ELSE GapOpen)

gap_penalty(prev, col) == IF prev = col THEN GapExtend ELSE GapOpen

\* Score of the columns cols[k..], where i and j are the next characters of
\* string_1 and string_2 and prev is the previous column's kind.
RECURSIVE ScoreFrom(_, _, _, _, _, _, _)
ScoreFrom(cols, k, string_1, i, string_2, j, prev) ==
    IF k > Len(cols) THEN 0
    ELSE IF cols[k] = "M"
    THEN (IF string_1[i] = string_2[j] THEN MatchScore ELSE MismatchScore)
         + ScoreFrom(cols, k + 1, string_1, i + 1, string_2, j + 1, "M")
    ELSE gap_penalty(prev, cols[k])
         + (IF cols[k] = "A"
            THEN ScoreFrom(cols, k + 1, string_1, i + 1, string_2, j, "A")
            ELSE ScoreFrom(cols, k + 1, string_1, i, string_2, j + 1, "B"))

Score(cols, string_1, string_2) == ScoreFrom(cols, 1, string_1, 1, string_2, 1, "M")

\* string_1 as the alignment prints it: a gap character in every "B" column.
RECURSIVE Gapped(_, _, _, _)
Gapped(cols, k, string_1, i) ==
    IF k > Len(cols) THEN <<>>
    ELSE IF cols[k] = "B" THEN <<GapChar>> \o Gapped(cols, k + 1, string_1, i)
    ELSE <<string_1[i]>> \o Gapped(cols, k + 1, string_1, i + 1)

\* Every alignment as <<score, string_1 with its gaps>>.
Scored(string_1, string_2) ==
    {<<Score(c, string_1, string_2), Gapped(c, 1, string_1, 1)>> :
        c \in Columns(Len(string_1), Len(string_2))}

\* The strings alignments[0][0] can be (both arguments non-empty): string_1
\* as a best-scoring alignment prints it.
align_pairwise(string_1, string_2) ==
    LET scored == Scored(string_1, string_2)
        best == SetMax({a[1] : a \in scored})
    IN  {a[2] : a \in {b \in scored : b[1] = best}}

(***************************************************************************)
(* majority_vote                                                           *)
(***************************************************************************)
\* s.ljust(max_length)
ljust(s, max_length) ==
    [p \in 1..(IF Len(s) > max_length THEN Len(s) ELSE max_length) |->
        IF p <= Len(s) THEN s[p] ELSE " "]

\* count[char] for the characters chars of one position.
count_of(chars, char) == Cardinality({i \in 1..Len(chars) : chars[i] = char})

\* max(count, key=count.get): the dict keeps its keys in the order they were
\* first inserted and max returns the first key holding the maximum.
voted_char_last(chars) ==
    LET top == SetMax({count_of(chars, chars[i]) : i \in 1..Len(chars)})
        last == SetMax({i \in 1..Len(chars) : count_of(chars, chars[i]) = top})
    IN  chars[last]

voted_char(chars) ==
    LET top == SetMax({count_of(chars, chars[i]) : i \in 1..Len(chars)})
        first == SetMin({i \in 1..Len(chars) : count_of(chars, chars[i]) = top})
    IN  chars[first]

\* strings is non-empty (max of an empty list raises).
majority_vote(strings) ==
    LET max_length == SetMax({Len(strings[i]) : i \in 1..Len(strings)})
        padded_strings == [i \in 1..Len(strings) |-> ljust(strings[i], max_length)]
    IN  [p \in 1..max_length |->
            voted_char([i \in 1..Len(strings) |-> padded_strings[i][p]])]

(***************************************************************************)
(* identify_words: the set of values the call can return.  With one line   *)
(* it is the line; with two or three, the vote over the alignments; with   *)
(* any other number of lines no branch is taken and the function returns   *)
(* None.  An empty string among two or three lines makes the library       *)
(* return no alignment, and alignments[0] raises IndexError.               *)
(***************************************************************************)
IndexError == <<"IndexError">>

reconciled(this, other1, other2) ==
    UNION {align_pairwise(align1, align2) :
              align1 \in align_pairwise(this, other1),
              align2 \in align_pairwise(this, other2)}

identify_words(lines) ==
    IF Len(lines) = 1 THEN {lines[1]}
    ELSE IF Len(lines) \in {2, 3} /\ \E i \in 1..Len(lines) : lines[i] = <<>>
    THEN {IndexError}
    ELSE IF Len(lines) = 2
    THEN {majority_vote(<<align_1, align_2>>) :
              align_1 \in align_pairwise(lines[1], lines[2]),
              align_2 \in align_pairwise(lines[2], lines[1])}
    ELSE IF Len(lines) = 3
    THEN {majority_vote(<<r1, r2, r3>>) :
              r1 \in reconciled(lines[1], lines[2], lines[3]),
              r2 \in reconciled(lines[2], lines[3], lines[1]),
              r3 \in reconciled(lines[3], lines[1], lines[2])}
    ELSE {None}

(***************************************************************************)
(* filter_exceeding_words.  roi.exceeding_rectangle(rectangle) is the      *)
(* ROI's own predicate: the ROI is the set of rectangles it holds true of. *)
(***************************************************************************)
exceeding_rectangle(r, rectangle) == rectangle \in r

\* exceeding_indicator of one line
exceeding_indicator(line, r) ==
    \E k \in 1..Len(line) : exceeding_rectangle(r, line[k])

\* reduced_line of one line
reduced_line(line, r) ==
    LET Keep(rectangle) == ~exceeding_rectangle(r, rectangle)
    IN  SelectSeq(line, Keep)

\* not (all(indicators) or not any(indicators))
mixed_never(indicators) == FALSE

mixed_always(indicators) == TRUE

mixed(indicators) ==
    ~((\A k \in 1..Len(indicators) : indicators[k])
      \/ ~(\E k \in 1..Len(indicators) : indicators[k]))

filter_exceeding_words(lines, r) ==
    LET indicators == [k \in 1..Len(lines) |-> exceeding_indicator(lines[k], r)]
        reduced_lines == [k \in 1..Len(lines) |-> reduced_line(lines[k], r)]
    IN  IF mixed(indicators) THEN reduced_lines ELSE lines

(***************************************************************************)
(* process_lines                                                           *)
(***************************************************************************)
\* ' '.join(words)
RECURSIVE join(_, _)
join(sep, strs) ==
    IF strs = <<>> THEN <<>>
    ELSE IF Len(strs) = 1 THEN strs[1]
    ELSE strs[1] \o sep \o join(sep, Tail(strs))

contents(line) == [k \in 1..Len(line) |-> line[k].content]

\* filter(None, lines_of_words): the lists that are not empty
drop_empty(lines_of_words) ==
    LET NonEmpty(l) == l # <<>>
    IN  SelectSeq(lines_of_words, NonEmpty)

\* The strings process_lines hands to identify_words.
surviving_strings(lines, r) ==
    LET filtered == filter_exceeding_words(lines, r)
        lines_of_words == drop_empty([k \in 1..Len(filtered) |-> contents(filtered[k])])
    IN  [k \in 1..Len(lines_of_words) |-> join(<<" ">>, lines_of_words[k])]

process_lines(lines, r) == identify_words(surviving_strings(lines, r))

(***************************************************************************)
(* align_lines.  groups is the dict in insertion order: a sequence of      *)
(* entries [num, den, lines] whose key is the fraction num / den.          *)
(***************************************************************************)
\* np.mean of the centers: <<sum, n>>
line_center(line) == <<SumSeq([k \in 1..Len(line) |-> line[k].center_y]), Len(line)>>

line_bottom(line) == SetMax({line[k].end_y : k \in 1..Len(line)})

line_top(line) == SetMin({line[k].start_y : k \in 1..Len(line)})

\* bottom >= group_center >= top
covers_top_only(line, g) == g.num >= line_top(line) * g.den

covers(line, g) ==
    /\ line_bottom(line) * g.den >= g.num
    /\ g.num >= line_top(line) * g.den

\* groups[center] = [line]: a key already in the dict keeps its place and
\* gets the new value, a new key goes last.
set_item(groups, center, line) ==
    IF \E k \in 1..Len(groups) : groups[k].num * center[2] = center[1] * groups[k].den
    THEN [k \in 1..Len(groups) |->
             IF groups[k].num * center[2] = center[1] * groups[k].den
             THEN [groups[k] EXCEPT !.lines = <<line>>]
             ELSE groups[k]]
    ELSE Append(groups, [num |-> center[1], den |-> center[2], lines |-> <<line>>])

\* One iteration of the inner loop of align_lines.
add_line(groups, line) ==
    IF \E k \in 1..Len(groups) : covers(line, groups[k])
    THEN [k \in 1..Len(groups) |->
             IF covers(line, groups[k])
             THEN [groups[k] EXCEPT !.lines = Append(@, line)]
             ELSE groups[k]]
    ELSE set_item(groups, line_center(line), line)

RECURSIVE add_lines(_, _)
add_lines(groups, lines) ==
    IF lines = <<>> THEN groups
    ELSE add_lines(add_line(groups, lines[1]), Tail(lines))

\* The dict when the loops end (its values are what align_lines returns).
align_lines_dict(cand_lines) == add_lines(<<>>, Concat(cand_lines))

align_lines(cand_lines) ==
    LET groups == align_lines_dict(cand_lines)
    IN  [k \in 1..Len(groups) |-> groups[k].lines]

(***************************************************************************)
(* get_max_words                                                           *)
(***************************************************************************)
get_max_words(groups) ==
    SetMax({0} \cup UNION {{Len(groups[g][l]) : l \in 1..Len(groups[g])} :
                               g \in 1..Len(groups)})

(***************************************************************************)
(* check_barcode_area as a call: the candidates are lists of rectangles,   *)
(* of which the function reads the lengths only.                           *)
(***************************************************************************)
BarcodeMaxSources == 3

BarcodeMaxRects == 3

BarcodeRect == [start_y |-> 0, end_y |-> 4, center_y |-> 2, height |-> 4,
                start_x |-> 0, content |-> <<"a">>]

BarcodeInputs ==
    SeqsOf(SeqsOf({BarcodeRect}, 0, BarcodeMaxRects), 0, BarcodeMaxSources)

InitBarcode ==
    /\ arg \in BarcodeInputs
    /\ candidates = arg
    /\ pc = "call"
    /\ ret = None
    /\ roi = {}
    /\ candidate_lines = <<>>
    /\ aligned_groups = <<>>
    /\ words = <<>>
    /\ idx = 1

CallCheckBarcodeArea ==
    /\ pc = "call"
    /\ ret' = check_barcode_area(candidates)
    /\ pc' = "returned"
    /\ UNCHANGED <<arg, candidates, roi, candidate_lines, aligned_groups, words, idx>>

NextBarcode == CallCheckBarcodeArea

SpecBarcode == InitBarcode /\ [][NextBarcode]_vars

\* C1: check_barcode_area returns true exactly when every sublist has at
\* most one rectangle and the sublists hold at least one rectangle in all.
C1_BarcodeIff ==
    pc = "returned" =>
        (ret = TRUE <=>
            /\ \A k \in 1..Len(arg) : Len(arg[k]) <= 1
            /\ \E k \in 1..Len(arg) : Len(arg[k]) >= 1)

\* Reached: true returned for several sources of which some are empty.
C1_Witness ==
    /\ pc = "returned"
    /\ ret = TRUE
    /\ Len(arg) >= 2
    /\ \E k \in 1..Len(arg) : arg[k] = <<>>

(***************************************************************************)
(* separate_to_lines as a call on one non-empty list of rectangles, of     *)
(* which it reads center_y and height.  The call sorts the caller's list   *)
(* in place and returns the lines.                                         *)
(***************************************************************************)
LinesMaxRects == 3

LinesMaxY == 3

LinesHeights == {0, 2, 6}

LinesRects ==
    {[start_y |-> 0, end_y |-> h, center_y |-> c, height |-> h,
      start_x |-> 0, content |-> <<"a">>] : c \in 0..LinesMaxY, h \in LinesHeights}

InitLines ==
    /\ arg \in SeqsOf(LinesRects, 1, LinesMaxRects)
    /\ candidates = <<arg>>
    /\ pc = "call"
    /\ ret = None
    /\ roi = {}
    /\ candidate_lines = <<>>
    /\ aligned_groups = <<>>
    /\ words = <<>>
    /\ idx = 1

CallSeparateToLines ==
    /\ pc = "call"
    /\ candidates' = <<sort_by_center_y(candidates[1])>>
    /\ ret' = separate_to_lines(candidates[1])
    /\ pc' = "returned"
    /\ UNCHANGED <<arg, roi, candidate_lines, aligned_groups, words, idx>>

NextLines == CallSeparateToLines

SpecLines == InitLines /\ [][NextLines]_vars

\* Number of times rectangle r occurs in the list s.
Occurrences(s, r) == Cardinality({k \in 1..Len(s) : s[k] = r})

\* C5: the lines separate_to_lines returns partition its input (every
\* rectangle in exactly one line, as often as the input holds it), none of
\* them is empty, and read one after the other they give the rectangles in
\* ascending order of center_y.
C5_LinesPartition ==
    pc = "returned" =>
        LET flat == Concat(ret)
        IN  /\ Len(flat) = Len(arg)
            /\ \A r \in Range(arg) \cup Range(flat) :
                   Occurrences(flat, r) = Occurrences(arg, r)
            /\ \A l \in 1..Len(ret) : ret[l] # <<>>
            /\ \A k \in 1..(Len(flat) - 1) : flat[k].center_y <= flat[k + 1].center_y

\* Reached: an unsorted input of three rectangles split into two lines.
C5_Witness ==
    /\ pc = "returned"
    /\ Len(arg) = 3
    /\ arg[1].center_y > arg[2].center_y
    /\ Len(ret) = 2
    /\ \E l \in 1..2 : Len(ret[l]) = 2

(***************************************************************************)
(* majority_vote as a call on a non-empty list of strings.                 *)
(***************************************************************************)
VoteMaxStrings == 3

VoteMaxLen == 2

VoteChars == {"a", "b"}

CatCotCat == << <<"c", "a", "t">>, <<"c", "o", "t">>, <<"c", "a", "t">> >>

VoteInputs ==
    SeqsOf(SeqsOf(VoteChars, 0, VoteMaxLen), 1, VoteMaxStrings) \cup {CatCotCat}

InitVote ==
    /\ arg \in VoteInputs
    /\ candidates = <<>>
    /\ pc = "call"
    /\ ret = None
    /\ roi = {}
    /\ candidate_lines = <<>>
    /\ aligned_groups = <<>>
    /\ words = <<>>
    /\ idx = 1

CallMajorityVote ==
    /\ pc = "call"
    /\ ret' = majority_vote(arg)
    /\ pc' = "returned"
    /\ UNCHANGED <<arg, candidates, roi, candidate_lines, aligned_groups, words, idx>>

NextVote == CallMajorityVote

SpecVote == InitVote /\ [][NextVote]_vars

\* The character of string s at position p once s is padded with spaces.
PaddedAt(s, p) == IF p <= Len(s) THEN s[p] ELSE " "

\* How many of the strings hold character c at position p.
VotesFor(strings, p, c) ==
    Cardinality({k \in 1..Len(strings) : PaddedAt(strings[k], p) = c})

\* The first string (in list order) that holds c at position p.
FirstSeen(strings, p, c) ==
    SetMin({k \in 1..Len(strings) : PaddedAt(strings[k], p) = c})

\* C9: majority_vote returns a string as long as the longest input whose
\* character at every position has the highest count there among the
\* inputs padded with spaces, and among the characters sharing that count
\* is the one seen first in list order; ["cat","cot","cat"] gives "cat".
C9_MajorityFirstSeen ==
    pc = "returned" =>
        /\ Len(ret) = SetMax({Len(arg[k]) : k \in 1..Len(arg)})
        /\ \A p \in 1..Len(ret) :
              LET column == {PaddedAt(arg[k], p) : k \in 1..Len(arg)}
              IN  /\ ret[p] \in column
                  /\ \A c \in column \ {ret[p]} :
                        \/ VotesFor(arg, p, c) < VotesFor(arg, p, ret[p])
                        \/ /\ VotesFor(arg, p, c) = VotesFor(arg, p, ret[p])
                           /\ FirstSeen(arg, p, ret[p]) < FirstSeen(arg, p, c)
        /\ arg = CatCotCat => ret = <<"c", "a", "t">>

\* Reached: a tie at some position, between a character and the padding,
\* settled for the one seen first, which is not the alphabetically first.
C9_Witness ==
    /\ pc = "returned"
    /\ \E p \in 1..Len(ret) :
          /\ ret[p] = "b"
          /\ VotesFor(arg, p, "a") = VotesFor(arg, p, "b")
          /\ VotesFor(arg, p, " ") = VotesFor(arg, p, "b")

(***************************************************************************)
(* identify_words as a call on one to three non-empty strings.             *)
(***************************************************************************)
IdentifyMaxLen == 2

IdentifyChars == {"a", " "}

\* The branches of identify_words: one, two or three lines.
SupportedLines == 3

InitIdentify ==
    /\ arg \in SeqsOf(SeqsOf(IdentifyChars, 1, IdentifyMaxLen), 1, SupportedLines)
    /\ candidates = <<>>
    /\ pc = "call"
    /\ ret = None
    /\ roi = {}
    /\ candidate_lines = <<>>
    /\ aligned_groups = <<>>
    /\ words = <<>>
    /\ idx = 1

CallIdentifyWords ==
    /\ pc = "call"
    /\ \E w \in identify_words(arg) : ret' = w
    /\ pc' = "returned"
    /\ UNCHANGED <<arg, candidates, roi, candidate_lines, aligned_groups, words, idx>>

NextIdentify == CallIdentifyWords

SpecIdentify == InitIdentify /\ [][NextIdentify]_vars

\* C7: when the one, two or three strings given to identify_words are the
\* same string s, the result is s.
C7_IdenticalRoundTrip ==
    (pc = "returned" /\ \A k \in 1..Len(arg) : arg[k] = arg[1]) => ret = arg[1]

\* Reached: three identical strings that hold a space, result returned.
C7_Witness ==
    /\ pc = "returned"
    /\ Len(arg) = 3
    /\ \A k \in 1..3 : arg[k] = arg[1]
    /\ Len(arg[1]) >= 2
    /\ " " \in Range(arg[1])
    /\ ret = arg[1]

(***************************************************************************)
(* filter_exceeding_words as a call on a list of lines and a ROI.          *)
(***************************************************************************)
FilterMaxLines == 3

FilterMaxRects == 2

FilterRects ==
    {[start_y |-> 0, end_y |-> 4, center_y |-> 2, height |-> 4,
      start_x |-> x, content |-> <<"a">>] : x \in 0..1}

InitFilter ==
    /\ arg \in [lines : SeqsOf(SeqsOf(FilterRects, 0, FilterMaxRects), 0, FilterMaxLines),
                roi : SUBSET FilterRects]
    /\ candidates = <<>>
    /\ roi = arg.roi
    /\ pc = "call"
    /\ ret = None
    /\ candidate_lines = <<>>
    /\ aligned_groups = <<>>
    /\ words = <<>>
    /\ idx = 1

CallFilterExceedingWords ==
    /\ pc = "call"
    /\ ret' = filter_exceeding_words(arg.lines, roi)
    /\ pc' = "returned"
    /\ UNCHANGED <<arg, candidates, roi, candidate_lines, aligned_groups, words, idx>>

NextFilter == CallFilterExceedingWords

SpecFilter == InitFilter /\ [][NextFilter]_vars

\* The "exceeds" flag of a line: some rectangle of it exceeds the ROI.
Exceeds(line, r) == \E k \in 1..Len(line) : line[k] \in r

\* The rectangles of a line that do not exceed, in their order.
RECURSIVE Inside(_, _)
Inside(line, r) ==
    IF line = <<>> THEN <<>>
    ELSE IF line[1] \in r THEN Inside(Tail(line), r)
    ELSE <<line[1]>> \o Inside(Tail(line), r)

\* C8: filter_exceeding_words returns its input when the lines' flags are
\* all true or all false; when they are mixed it returns, line by line, the
\* non-exceeding rectangles in their order, so that no returned rectangle
\* exceeds the ROI.
C8_FilterRule ==
    pc = "returned" =>
        LET lines == arg.lines
            flags == {Exceeds(lines[k], arg.roi) : k \in 1..Len(lines)}
        IN  IF flags = {TRUE, FALSE}
            THEN /\ Len(ret) = Len(lines)
                 /\ \A k \in 1..Len(lines) : ret[k] = Inside(lines[k], arg.roi)
                 /\ \A k \in 1..Len(ret) : \A j \in 1..Len(ret[k]) : ret[k][j] \notin arg.roi
            ELSE ret = lines

\* Reached: mixed flags, and a line that lost a rectangle and kept another.
C8_Witness ==
    /\ pc = "returned"
    /\ \E k, l \in 1..Len(arg.lines) :
          /\ Exceeds(arg.lines[k], arg.roi)
          /\ ~Exceeds(arg.lines[l], arg.roi)
          /\ Len(ret[k]) = 1
          /\ Len(arg.lines[k]) = 2

\* Reached: every line flagged, the exceeding rectangles returned as given.
C8_WitnessUnanimous ==
    /\ pc = "returned"
    /\ Len(arg.lines) >= 2
    /\ \A k \in 1..Len(arg.lines) : Exceeds(arg.lines[k], arg.roi)
    /\ ret = arg.lines

(***************************************************************************)
(* align_lines as a call.  It visits the lines source by source and reads  *)
(* start_y, center_y and end_y of their rectangles; here every source      *)
(* reports one line, of one rectangle or of two.                           *)
(***************************************************************************)
GroupMaxLines == 3

GroupYs == 0..2

\* Rectangles with start_y <= center_y <= end_y.
GroupRects ==
    {[start_y |-> s, end_y |-> e, center_y |-> c, height |-> e - s,
      start_x |-> 0, content |-> <<"a">>] :
        s \in GroupYs, e \in GroupYs, c \in GroupYs}

\* Those with the center on an edge: the extreme cases of the test.
GroupWellFormed ==
    {r \in GroupRects : r.start_y <= r.end_y /\ r.center_y \in {r.start_y, r.end_y}}

GroupPoint == [start_y |-> 0, end_y |-> 0, center_y |-> 0, height |-> 0,
               start_x |-> 0, content |-> <<"a">>]

GroupLines == {<<r>> : r \in GroupWellFormed} \cup {<<GroupPoint, r>> : r \in GroupWellFormed}

InitGroup ==
    /\ arg \in SeqsOf(GroupLines, 1, GroupMaxLines)
    /\ candidate_lines = [k \in 1..Len(arg) |-> <<arg[k]>>]
    /\ candidates = <<>>
    /\ pc = "call"
    /\ ret = None
    /\ roi = {}
    /\ aligned_groups = <<>>
    /\ words = <<>>
    /\ idx = 1

CallAlignLines ==
    /\ pc = "call"
    /\ ret' = align_lines(candidate_lines)
    /\ pc' = "returned"
    /\ UNCHANGED <<arg, candidates, roi, candidate_lines, aligned_groups, words, idx>>

NextGroup == CallAlignLines

SpecGroup == InitGroup /\ [][NextGroup]_vars

\* Vertical span of a line: smallest start_y, largest end_y.
Top(line) == SetMin({line[k].start_y : k \in 1..Len(line)})

Bottom(line) == SetMax({line[k].end_y : k \in 1..Len(line)})

\* c is within the span of the line, c the fraction n / d.
SpanHolds(line, n, d) == Top(line) * d <= n /\ n <= Bottom(line) * d

\* C6: in every group align_lines returns, the mean center_y of the line
\* that opened the group (its first line) lies within [top, bottom] of
\* every line of the group, so no two lines of a group have disjoint spans.
C6_CenterInEverySpan ==
    pc = "returned" =>
        \A g \in 1..Len(ret) :
            LET opener == ret[g][1]
                n == SumSeq([k \in 1..Len(opener) |-> opener[k].center_y])
                d == Len(opener)
            IN  /\ \A l \in 1..Len(ret[g]) : SpanHolds(ret[g][l], n, d)
                /\ \A l, m \in 1..Len(ret[g]) :
                      ~(Bottom(ret[g][l]) < Top(ret[g][m]))

\* Reached: two groups, one of them with two lines around a center that is
\* no whole number.
C6_Witness ==
    /\ pc = "returned"
    /\ Len(ret) = 2
    /\ \E g \in 1..2 :
          /\ Len(ret[g]) = 2
          /\ Len(ret[g][1]) = 2
          /\ ret[g][1][2].center_y = 1
          /\ ret[g][2] # ret[g][1]

(***************************************************************************)
(* general_text_area, statement by statement.                              *)
(***************************************************************************)
TypeError == <<"TypeError">>

\* line.sort(): the rectangles' own order, left to right.
sort_line(line) == SortByKey(line, "start_x")

\* The thresholds of the strategy switch.
MaxGroups == 3

MaxWords == 5

full_pipeline(groups) == Len(groups) <= MaxGroups /\ get_max_words(groups) <= MaxWords

\* for candidate in candidates: one iteration.  separate_to_lines sorts the
\* candidate, which is the caller's list, in place.
Separate ==
    /\ pc = "separate"
    /\ idx <= Len(candidates)
    /\ IF candidates[idx] # <<>>
       THEN LET lines == separate_to_lines(candidates[idx])
            IN  /\ candidates' = [candidates EXCEPT ![idx] = sort_by_center_y(@)]
                /\ candidate_lines' =
                       Append(candidate_lines, [l \in 1..Len(lines) |-> sort_line(lines[l])])
       ELSE UNCHANGED <<candidates, candidate_lines>>
    /\ idx' = idx + 1
    /\ UNCHANGED <<pc, arg, roi, aligned_groups, words, ret>>

\* aligned_groups = align_lines(candidate_lines), after the loop.
AlignLines ==
    /\ pc = "separate"
    /\ idx > Len(candidates)
    /\ aligned_groups' = align_lines(candidate_lines)
    /\ pc' = "groups"
    /\ idx' = 1
    /\ UNCHANGED <<arg, candidates, roi, candidate_lines, words, ret>>

\* words.append(process_lines(group, roi)): one iteration of the first loop.
ProcessGroup ==
    /\ pc = "groups"
    /\ full_pipeline(aligned_groups)
    /\ idx <= Len(aligned_groups)
    /\ \E w \in process_lines(aligned_groups[idx], roi) :
          IF w = IndexError
          THEN /\ pc' = "raised"
               /\ ret' = IndexError
               /\ UNCHANGED <<words, idx>>
          ELSE /\ words' = Append(words, w)
               /\ idx' = idx + 1
               /\ UNCHANGED <<pc, ret>>
    /\ UNCHANGED <<arg, candidates, roi, candidate_lines, aligned_groups>>

\* words.append(' '.join([... for rectangle in group[1]])): one iteration of
\* the second loop; group[1] is the second line of the group.
FallbackGroup ==
    /\ pc = "groups"
    /\ ~full_pipeline(aligned_groups)
    /\ idx <= Len(aligned_groups)
    /\ IF Len(aligned_groups[idx]) < 2
       THEN /\ pc' = "raised"
            /\ ret' = IndexError
            /\ UNCHANGED <<words, idx>>
       ELSE /\ words' = Append(words, join(<<" ">>, contents(aligned_groups[idx][2])))
            /\ idx' = idx + 1
            /\ UNCHANGED <<pc, ret>>
    /\ UNCHANGED <<arg, candidates, roi, candidate_lines, aligned_groups>>

\* return '\n'.join(words): str.join raises TypeError on an item that is
\* not a string.
Join ==
    /\ pc = "groups"
    /\ idx > Len(aligned_groups)
    /\ IF \E k \in 1..Len(words) : words[k] = None
       THEN pc' = "raised" /\ ret' = TypeError
       ELSE pc' = "returned" /\ ret' = join(<<"\n">>, words)
    /\ UNCHANGED <<arg, candidates, roi, candidate_lines, aligned_groups, words, idx>>

Next == Separate \/ AlignLines \/ ProcessGroup \/ FallbackGroup \/ Join

\* A rectangle of the text rows: row k spans 10k..10k+4.
TextRect(row, x) ==
    [start_y |-> 10 * row, end_y |-> 10 * row + 4, center_y |-> 10 * row + 2,
     height |-> 4, start_x |-> x, content |-> IF x = 0 THEN <<"a">> ELSE <<"b">>]

\* The lists of n candidates over the rectangles R that hold at most t
\* rectangles in all.
RECURSIVE CandidateLists(_, _, _)
CandidateLists(R, n, t) ==
    IF n = 0 THEN {<<>>}
    ELSE UNION {{<<c>> \o rest : rest \in CandidateLists(R, n - 1, t - Len(c))} :
                   c \in SeqsOf(R, 0, t)}

MaxSources == 4

MaxTotal == 4

Rows == 0..3

Rects == {TextRect(row, 0) : row \in Rows}

Init ==
    /\ arg \in [candidates : UNION {CandidateLists(Rects, n, MaxTotal) : n \in 0..MaxSources},
                roi : {{}, {TextRect(0, 0)}}]
    /\ candidates = arg.candidates
    /\ roi = arg.roi
    /\ pc = "separate"
    /\ idx = 1
    /\ candidate_lines = <<>>
    /\ aligned_groups = <<>>
    /\ words = <<>>
    /\ ret = None

Spec == Init /\ [][Next]_vars

\* An error that names the unsupported input; no statement of the file
\* raises one.
DomainError == <<"DomainError">>

\* C2: the call leaves every caller-supplied candidate list as it was: the
\* same rectangles in the same order.
C2_InputsReadOnly == candidates = arg.candidates

\* C3: in the full-pipeline regime a group with more than three lines left
\* after the empty-line filter makes the call raise a domain error: it is
\* never processed into a result of None.
C3_TooManyLinesRaises ==
    (pc # "separate" /\ full_pipeline(aligned_groups)) =>
        \A g \in 1..Len(aligned_groups) :
            (/\ Len(surviving_strings(aligned_groups[g], roi)) > SupportedLines
             /\ (g < idx \/ pc \in {"raised", "returned"}))
            => (pc = "raised" /\ ret = DomainError)

\* C4: in the cheap-fallback regime a group of one line makes the call
\* raise a domain error, not the out-of-range fault of group[1].
C4_FallbackSingleLineRaises ==
    (/\ pc \in {"raised", "returned"}
     /\ ~full_pipeline(aligned_groups)
     /\ \E g \in 1..Len(aligned_groups) : Len(aligned_groups[g]) = 1)
    => (pc = "raised" /\ ret = DomainError)

(***************************************************************************)
(* general_text_area in the full-pipeline regime: up to FullMaxSources     *)
(* sources, two rows, two rectangles side by side in the first one, and    *)
(* any ROI over them.                                                      *)
(***************************************************************************)
FullMaxSources == 2

FullMaxTotal == 3

FullRects == {TextRect(0, 0), TextRect(0, 1), TextRect(1, 0)}

InitFull ==
    /\ arg \in [candidates : UNION {CandidateLists(FullRects, n, FullMaxTotal) :
                                       n \in 0..FullMaxSources},
                roi : SUBSET FullRects]
    /\ candidates = arg.candidates
    /\ roi = arg.roi
    /\ pc = "separate"
    /\ idx = 1
    /\ candidate_lines = <<>>
    /\ aligned_groups = <<>>
    /\ words = <<>>
    /\ ret = None

NextFull == Separate \/ AlignLines \/ ProcessGroup \/ Join

SpecFull == InitFull /\ [][NextFull]_vars

\* C10: in the full-pipeline regime every group of align_lines keeps at
\* least one line through filter_exceeding_words and the empty-line filter,
\* so identify_words is never called with an empty list.
C10_SomeLineSurvives ==
    (pc = "groups" /\ full_pipeline(aligned_groups)) =>
        \A g \in 1..Len(aligned_groups) :
            /\ aligned_groups[g] # <<>>
            /\ \A l \in 1..Len(aligned_groups[g]) : aligned_groups[g][l] # <<>>
            /\ surviving_strings(aligned_groups[g], roi) # <<>>

\* Reached: a processed group that lost a whole line to the ROI (mixed
\* flags) and kept another.
C10_Witness ==
    /\ pc = "groups"
    /\ idx = 2
    /\ Len(aligned_groups[1]) = 2
    /\ Len(surviving_strings(aligned_groups[1], roi)) = 1
    /\ Len(words) = 1

====
